---- MODULE Spec2Model ----
(***************************************************************************)
(* State-machine model of obspy/clients/fdsn/routers/fedcatalog_client.py: *)
(* the provider registry (FedcatalogProviders) with concurrent refreshers  *)
(* and readers, the dispatch / reroute controller (FederatedClient), and   *)
(* the routing-plan parser (FederatedRoutingManager.parse_routing).        *)
(***************************************************************************)
EXTENDS Integers, Sequences, FiniteSets, TLC

VARIABLES
    providers,        \* FedcatalogProviders._providers : dict name -> record
    lock,             \* FedcatalogProviders._lock : holder, or NoThread
    failed_refreshes, \* FedcatalogProviders._failed_refreshes
    pc,               \* per refresher thread: position inside refresh()
    force,            \* per refresher thread: the force argument of its call
    ridx,             \* per refresher thread: index of the REMAPS loop
    ret,              \* per refresher thread: how its last refresh() ended
    requested,        \* per refresher thread: requests.get issued by this call
    reported,         \* per refresher thread: ROUTING_LOGGER.error at line 268
    span,             \* the collections before / after the refresh in flight
    rpc,              \* reader thread: position inside get()
    rarg,             \* reader thread: arguments (name, detail) of its get()
    rres,             \* reader thread: result of its last get()
    rkeys,            \* reader thread: keys seen by its last iteration / names
    qpc,              \* top-level query: position in get_stations & co.
    qargs,            \* top-level query: the method called and its arguments
    plan,             \* the FederatedRoutingManager being dispatched (frm)
    idx,              \* query(): index of the route dispatched next
    pass,             \* "primary", or "reroute" inside attempt_reroute
    output,           \* query(): the output queue (retrieved datasets)
    passed,           \* query(): the passed queue (lines re-derived from data)
    failed,           \* query(): the failed queue (request_items not retrieved)
    files,            \* provider ids whose response was streamed to a file
    outcomes,         \* what each provider call of this pass ended with
    data,             \* the merged dataset held by the top-level method
    qerr,             \* the exception that left the top-level method, if any
    disc_log,         \* the requests sent to the fedcatalog query endpoint
    text,             \* parse_routing: the lines of block_text read so far
    state,            \* parse_routing: the parser state after the last line
    fed_resp,         \* parse_routing: the list of routes built so far
    parameters,       \* parse_routing: the captured parameters reference
    heap,             \* the parameters mappings, by reference
    ppc,              \* parse_routing: position ("lines", "returned", ...)
    call,             \* the last call of a helper function and its result
    tpc               \* parallel query(): position of each route's task

regVars == <<providers, lock, failed_refreshes, pc, force, ridx, ret,
             requested, reported, span, rpc, rarg, rres, rkeys>>

qVars == <<qpc, qargs, plan, idx, pass, output, passed, failed, files,
           outcomes, data, qerr, disc_log>>

parseVars == <<text, state, fed_resp, parameters, heap, ppc>>

auxVars == <<call, tpc>>

vars == <<regVars, qVars, parseVars, auxVars>>

-----------------------------------------------------------------------------
(* Bounds of the model *)

MaxResp == 2        \* records in one directory response
MaxFailed == 4      \* cap of the consecutive-failure counter
MaxRoutes == 2      \* routes in a routing plan of the primary pass
MaxReroutes == 1    \* routes in the routing plan of a reroute pass
MaxLines == 6       \* lines of one discovery response

-----------------------------------------------------------------------------
(* The provider registry: data *)

REMAPS == << <<"IRISDMC", "IRIS">>, <<"GEOFON", "GFZ">>,
             <<"SED", "ETH">>, <<"USPC", "USP">> >>

Threads == {"t1", "t2"}
NoThread == "none"

DirNames == {"IRISDMC", "IRIS", "GEOFON"}
RecordKeys == {"name", "description", "location", "website", "lastUpdate",
               "serviceURLs"}
DetailArgs == {"", "description", "lastupdate"}
ReaderNamesArgs == {"IRISDMC", "IRIS", "GFZ", "BGR"}

\* One record of the directory response; every field value is a sequence of
\* strings, the name field holds the provider name alone.
Rec(n) == [k \in RecordKeys |-> IF k = "name" THEN <<n>> ELSE <<n, k>>]

SeqsUpTo(S, n) == UNION {[1..k -> S] : k \in 0..n}

Responses == SeqsUpTo({Rec(n) : n \in DirNames}, MaxResp)

EmptyDict == [k \in {} |-> <<>>]

\* dict[key] = value
DictSet(d, key, value) ==
    [k \in DOMAIN d \cup {key} |-> IF k = key THEN value ELSE d[k]]

\* {v['name']: v for v in resp.json()} : a later record replaces an earlier
\* one of the same name.
FromResponse(resp) ==
    LET names == {resp[i]["name"][1] : i \in DOMAIN resp}
        last(n) == CHOOSE i \in DOMAIN resp :
                      /\ resp[i]["name"][1] = n
                      /\ \A j \in DOMAIN resp :
                            resp[j]["name"][1] = n => j <= i
    IN  [n \in names |-> resp[last(n)]]

\* One iteration of the loop over REMAPS
RemapStepSkipExisting(d, i) ==
    IF REMAPS[i][1] \in DOMAIN d /\ REMAPS[i][2] \notin DOMAIN d
    THEN DictSet(d, REMAPS[i][2], d[REMAPS[i][1]])
    ELSE d

RemapStep(d, i) ==
    IF REMAPS[i][1] \in DOMAIN d
    THEN DictSet(d, REMAPS[i][2], d[REMAPS[i][1]])
    ELSE d

RECURSIVE RemapFrom(_, _)
RemapFrom(d, i) ==
    IF i > Len(REMAPS) THEN d ELSE RemapFrom(RemapStep(d, i), i + 1)

\* The collection a refresh that got `resp` leaves when it returns
Complete(resp) == RemapFrom(FromResponse(resp), 1)

-----------------------------------------------------------------------------
(* The provider registry: readers *)

NoResult == [kind |-> "none", value |-> <<>>]

\* str(record)
StrOf(rec) == <<"{">> \o rec["name"] \o rec["description"] \o rec["location"]
              \o rec["website"] \o rec["lastUpdate"] \o rec["serviceURLs"]
              \o <<"}">>

\* self._providers[name][detail] / str(self._providers[name])
Lookup(d, name, detail) ==
    IF name \notin DOMAIN d THEN [kind |-> "KeyError", value |-> <<name>>]
    ELSE IF detail # ""
         THEN IF detail \in DOMAIN d[name]
              THEN [kind |-> "value", value |-> d[name][detail]]
              ELSE [kind |-> "KeyError", value |-> <<detail>>]
         ELSE [kind |-> "value", value |-> StrOf(d[name])]

\* get(name, detail) run without interruption
get(d, name, detail) ==
    IF name \notin DOMAIN d THEN [kind |-> "value", value |-> <<>>]
    ELSE Lookup(d, name, detail)

\* pretty(name)
pretty(d, name) ==
    IF name \notin DOMAIN d THEN <<>>
    ELSE d[name]["name"] \o <<":">> \o d[name]["description"] \o <<", ">>
         \o d[name]["location"] \o <<" WEB:">> \o d[name]["website"]
         \o <<"LastUpdate:">> \o d[name]["lastUpdate"]

-----------------------------------------------------------------------------
(* The provider registry: refresh(force), one action per step of a thread *)

Returned(t, how) ==
    /\ pc' = [pc EXCEPT ![t] = "idle"]
    /\ ret' = [ret EXCEPT ![t] = how]
    /\ force' = [force EXCEPT ![t] = FALSE]
    /\ ridx' = [ridx EXCEPT ![t] = 1]

RefreshEnterNoSkip(t, f) ==
    /\ pc[t] = "idle"
    /\ requested' = [requested EXCEPT ![t] = FALSE]
    /\ reported' = [reported EXCEPT ![t] = FALSE]
    /\ pc' = [pc EXCEPT ![t] = "check"]
    /\ force' = [force EXCEPT ![t] = f]
    /\ ret' = [ret EXCEPT ![t] = "none"]
    /\ UNCHANGED <<ridx, providers, lock, failed_refreshes, span,
                   rpc, rarg, rres, rkeys>>
    /\ UNCHANGED <<qVars, parseVars, auxVars>>

\* refresh(force) is called; line 259: if self._providers and not force
RefreshEnter(t, f) ==
    /\ pc[t] = "idle"
    /\ requested' = [requested EXCEPT ![t] = FALSE]
    /\ reported' = [reported EXCEPT ![t] = FALSE]
    /\ IF providers # EmptyDict /\ ~f
       THEN Returned(t, "noop")
       ELSE /\ pc' = [pc EXCEPT ![t] = "check"]
            /\ force' = [force EXCEPT ![t] = f]
            /\ ret' = [ret EXCEPT ![t] = "none"]
            /\ UNCHANGED ridx
    /\ UNCHANGED <<providers, lock, failed_refreshes, span,
                   rpc, rarg, rres, rkeys>>
    /\ UNCHANGED <<qVars, parseVars, auxVars>>

\* line 261: if self._lock.locked(): return
RefreshCheckLock(t) ==
    /\ pc[t] = "check"
    /\ IF lock # NoThread
       THEN Returned(t, "inflight")
       ELSE /\ pc' = [pc EXCEPT ![t] = "acquire"]
            /\ UNCHANGED <<ret, force, ridx>>
    /\ UNCHANGED <<providers, lock, failed_refreshes, requested, reported,
                   span, rpc, rarg, rres, rkeys>>
    /\ UNCHANGED <<qVars, parseVars, auxVars>>

\* line 263: with self._lock (blocks while another thread holds the lock)
RefreshAcquire(t) ==
    /\ pc[t] = "acquire"
    /\ lock = NoThread
    /\ lock' = t
    /\ pc' = [pc EXCEPT ![t] = "locked"]
    /\ UNCHANGED <<providers, failed_refreshes, force, ridx, ret, requested,
                   reported, span, rpc, rarg, rres, rkeys>>
    /\ UNCHANGED <<qVars, parseVars, auxVars>>

\* lines 265-271: the error report, then requests.get(url) is issued
RefreshRequestAnyForce(t) ==
    /\ pc[t] = "locked"
    /\ reported' = [reported EXCEPT ![t] = (failed_refreshes > 3)]
    /\ requested' = [requested EXCEPT ![t] = TRUE]
    /\ pc' = [pc EXCEPT ![t] = "wait"]
    /\ UNCHANGED <<providers, lock, failed_refreshes, force, ridx, ret, span,
                   rpc, rarg, rres, rkeys>>
    /\ UNCHANGED <<qVars, parseVars, auxVars>>

RefreshRequest(t) ==
    /\ pc[t] = "locked"
    /\ reported' = [reported EXCEPT
                      ![t] = (failed_refreshes > 3 /\ ~force[t])]
    /\ requested' = [requested EXCEPT ![t] = TRUE]
    /\ pc' = [pc EXCEPT ![t] = "wait"]
    /\ UNCHANGED <<providers, lock, failed_refreshes, force, ridx, ret, span,
                   rpc, rarg, rres, rkeys>>
    /\ UNCHANGED <<qVars, parseVars, auxVars>>

\* lines 272-273: the response decodes; the dict is replaced, the counter reset
RefreshResponseOkKeepsCounter(t, resp) ==
    /\ pc[t] = "wait"
    /\ providers' = FromResponse(resp)
    /\ span' = [old |-> providers, new |-> Complete(resp)]
    /\ pc' = [pc EXCEPT ![t] = "remap"]
    /\ ridx' = [ridx EXCEPT ![t] = 1]
    /\ UNCHANGED <<lock, failed_refreshes, force, ret, requested, reported,
                   rpc, rarg, rres, rkeys>>
    /\ UNCHANGED <<qVars, parseVars, auxVars>>

RefreshResponseOk(t, resp) ==
    /\ pc[t] = "wait"
    /\ providers' = FromResponse(resp)
    /\ failed_refreshes' = 0
    /\ span' = [old |-> providers, new |-> Complete(resp)]
    /\ pc' = [pc EXCEPT ![t] = "remap"]
    /\ ridx' = [ridx EXCEPT ![t] = 1]
    /\ UNCHANGED <<lock, force, ret, requested, reported,
                   rpc, rarg, rres, rkeys>>
    /\ UNCHANGED <<qVars, parseVars, auxVars>>

\* lines 274-278: any exception of the request or of the decoding
RefreshResponseFailEmpties(t) ==
    /\ pc[t] = "wait"
    /\ failed_refreshes < MaxFailed
    /\ failed_refreshes' = failed_refreshes + 1
    /\ providers' = EmptyDict
    /\ lock' = NoThread
    /\ Returned(t, "failed")
    /\ UNCHANGED <<requested, reported, span, rpc, rarg, rres, rkeys>>
    /\ UNCHANGED <<qVars, parseVars, auxVars>>

\* lines 274-278: the except clause; return leaves the with block
RefreshResponseFailKeepsLock(t) ==
    /\ pc[t] = "wait"
    /\ failed_refreshes < MaxFailed
    /\ failed_refreshes' = failed_refreshes + 1
    /\ Returned(t, "failed")
    /\ UNCHANGED <<providers, lock, requested, reported, span,
                   rpc, rarg, rres, rkeys>>
    /\ UNCHANGED <<qVars, parseVars, auxVars>>

RefreshResponseFail(t) ==
    /\ pc[t] = "wait"
    /\ failed_refreshes < MaxFailed
    /\ failed_refreshes' = failed_refreshes + 1
    /\ lock' = NoThread
    /\ Returned(t, "failed")
    /\ UNCHANGED <<providers, requested, reported, span,
                   rpc, rarg, rres, rkeys>>
    /\ UNCHANGED <<qVars, parseVars, auxVars>>

\* lines 280-282: one iteration of the loop over REMAPS
RefreshRemap(t) ==
    /\ pc[t] = "remap"
    /\ ridx[t] <= Len(REMAPS)
    /\ providers' = RemapStep(providers, ridx[t])
    /\ ridx' = [ridx EXCEPT ![t] = ridx[t] + 1]
    /\ UNCHANGED <<lock, failed_refreshes, pc, force, ret, requested,
                   reported, span, rpc, rarg, rres, rkeys>>
    /\ UNCHANGED <<qVars, parseVars, auxVars>>

\* the loop is over: the with block releases the lock and refresh returns
RefreshReturn(t) ==
    /\ pc[t] = "remap"
    /\ ridx[t] > Len(REMAPS)
    /\ lock' = NoThread
    /\ span' = [old |-> span.new, new |-> span.new]
    /\ Returned(t, "ok")
    /\ UNCHANGED <<providers, failed_refreshes, requested, reported,
                   rpc, rarg, rres, rkeys>>
    /\ UNCHANGED <<qVars, parseVars, auxVars>>

-----------------------------------------------------------------------------
(* The provider registry: the reader thread, which takes no lock *)

\* get(name, detail), line 237 / pretty(name), line 299: name not in dict
ReaderCheck(op, name, detail) ==
    /\ rpc = "idle"
    /\ IF name \notin DOMAIN providers
       THEN /\ rres' = [kind |-> "value", value |-> <<>>]
            /\ UNCHANGED <<rpc, rarg>>
       ELSE /\ rpc' = "fetch"
            /\ rarg' = <<op, name, detail>>
            /\ rres' = NoResult
    /\ UNCHANGED <<providers, lock, failed_refreshes, pc, force, ridx, ret,
                   requested, reported, span, rkeys>>
    /\ UNCHANGED <<qVars, parseVars, auxVars>>

\* get, lines 240-243 / pretty, lines 301-302: the second read of the dict
ReaderFetch ==
    /\ rpc = "fetch"
    /\ rres' = IF rarg[1] = "pretty" /\ rarg[2] \in DOMAIN providers
               THEN [kind |-> "value", value |-> pretty(providers, rarg[2])]
               ELSE Lookup(providers, rarg[2], rarg[3])
    /\ rpc' = "idle"
    /\ rarg' = <<>>
    /\ UNCHANGED <<providers, lock, failed_refreshes, pc, force, ridx, ret,
                   requested, reported, span, rkeys>>
    /\ UNCHANGED <<qVars, parseVars, auxVars>>

\* __iter__ (line 201) / names (line 218): the keys of the dict as it is now
ReaderNames ==
    /\ rpc = "idle"
    /\ rkeys' = DOMAIN providers
    /\ UNCHANGED <<providers, lock, failed_refreshes, pc, force, ridx, ret,
                   requested, reported, span, rpc, rarg, rres>>
    /\ UNCHANGED <<qVars, parseVars, auxVars>>

-----------------------------------------------------------------------------
(* No top-level query has been called yet *)

QueryIdle ==
    /\ qpc = "idle"
    /\ qargs = <<>>
    /\ plan = <<>>
    /\ idx = 1
    /\ pass = "primary"
    /\ output = <<>>
    /\ passed = <<>>
    /\ failed = <<>>
    /\ files = <<>>
    /\ outcomes = <<>>
    /\ data = <<>>
    /\ qerr = "none"
    /\ disc_log = <<>>

-----------------------------------------------------------------------------
(* parse_routing has not been called yet *)

ParseIdle ==
    /\ text = <<>>
    /\ state = "PreParse"
    /\ fed_resp = <<>>
    /\ parameters = "None"
    /\ heap = [r \in {0} |-> EmptyDict]
    /\ ppc = "lines"

-----------------------------------------------------------------------------
(* No helper function has been called, no parallel query is running *)

NoCall == [fn |-> "none", args |-> <<>>, result |-> <<>>]

AuxIdle ==
    /\ call = NoCall
    /\ tpc = <<>>

-----------------------------------------------------------------------------
(* The registry after construction: __init__ has run refresh() once *)

InitRegistry ==
    /\ \/ \E resp \in Responses :
             /\ providers = Complete(resp)
             /\ failed_refreshes = 0
       \/ /\ providers = EmptyDict
          /\ failed_refreshes = 1
    /\ lock = NoThread
    /\ pc = [t \in Threads |-> "idle"]
    /\ force = [t \in Threads |-> FALSE]
    /\ ridx = [t \in Threads |-> 1]
    /\ ret = [t \in Threads |-> "none"]
    /\ requested = [t \in Threads |-> FALSE]
    /\ reported = [t \in Threads |-> FALSE]
    /\ span = [old |-> providers, new |-> providers]
    /\ rpc = "idle"
    /\ rarg = <<>>
    /\ rres = NoResult
    /\ rkeys = DOMAIN providers
    /\ QueryIdle
    /\ ParseIdle
    /\ AuxIdle

RefreshStep(t) ==
    \/ \E f \in BOOLEAN : RefreshEnter(t, f)
    \/ RefreshCheckLock(t)
    \/ RefreshAcquire(t)
    \/ RefreshRequest(t)
    \/ \E resp \in Responses : RefreshResponseOk(t, resp)
    \/ RefreshResponseFail(t)
    \/ RefreshRemap(t)
    \/ RefreshReturn(t)

ReaderStep ==
    \/ \E name \in ReaderNamesArgs, detail \in DetailArgs :
          ReaderCheck("get", name, detail)
    \/ \E name \in ReaderNamesArgs : ReaderCheck("pretty", name, "")
    \/ ReaderFetch
    \/ ReaderNames

\* Two threads refresh the shared registry; nothing reads it.
NextRegistry == \E t \in Threads : RefreshStep(t)

\* One thread refreshes the registry while the reader thread reads it.
NextReaders == RefreshStep("t1") \/ ReaderStep

SpecRegistry == InitRegistry /\ [][NextRegistry]_vars

SpecReaders == InitRegistry /\ [][NextReaders]_vars

-----------------------------------------------------------------------------
(* The dispatch / reroute controller: data *)

Methods == {"get_stations", "get_stations_bulk",
            "get_waveforms", "get_waveforms_bulk"}

\* svc_name of each top-level method (lines 603, 652, 730, 844)
SvcName(m) == IF m \in {"get_stations", "get_stations_bulk"}
              THEN "STATIONSERVICE" ELSE "DATASELECTSERVICE"

\* get_routing sends a GET, get_routing_bulk a POST
RoutingVerb(m) == IF m \in {"get_stations", "get_waveforms"}
                  THEN "GET" ELSE "POST"

\* What a provider's get_stations_bulk / get_waveforms_bulk ends with: a
\* dataset, FDSNNoDataException, another FDSNException, any other exception.
Outcomes == {"data", "nodata", "fdsn_error", "other_error"}

Route(p, items) == [provider_id |-> p, request_items |-> items]

RoutePool == {Route("A", <<"l1">>), Route("B", <<"l2">>),
              Route("A", <<"l1", "l2">>), Route("C", <<>>)}

\* Plans as parse_routing returns them: only one trailing route without
\* request items is dropped, so a plan may still hold and end with one.
PlansUpTo(n) == SeqsUpTo(RoutePool, n)

\* Status codes the fedcatalog can answer a routing query with
Statuses == {200, 304, 404, 500}

\* resp.raise_for_status() (lines 406, 456): requests raises HTTPError for a
\* client error (4xx) or server error (5xx) status and for no other status
raise_for_statusNon2xx(st) == st < 200 \/ st > 299

raise_for_status(st) == 400 <= st /\ st < 600

\* Arguments of a direct call of attempt_reroute: the failed lines and the
\* dataset retrieved before
FailedInputs == {<<>>, << <<"l1">> >>}
ExistingInputs == {<<>>, << <<"A", "l2">> >>}

\* The dataset a provider returns for a route: one item per request line
Dataset(route) ==
    [i \in DOMAIN route.request_items |->
        <<route.provider_id, route.request_items[i]>>]

\* data_to_request(data): the request lines the dataset stands for
data_to_request(ds) == [i \in DOMAIN ds |-> ds[i][2]]

RECURSIVE Flatten(_)
Flatten(q) == IF q = <<>> THEN <<>> ELSE Head(q) \o Flatten(Tail(q))

Range(q) == {q[i] : i \in DOMAIN q}

Count(q, x) == Cardinality({i \in DOMAIN q : q[i] = x})

Collectors == [output |-> <<>>, passed |-> <<>>, failed |-> <<>>,
               files |-> <<>>, raised |-> "none"]

-----------------------------------------------------------------------------
(* FederatedClient._request, lines 537-566: the effect of one provider call
   on the collectors c, and the exception that leaves it *)

requestNoDataFatal(route, filename, outcome, c) ==
    CASE outcome = "data" /\ filename ->
            [c EXCEPT !.files = Append(@, route.provider_id)]
      [] outcome = "data" /\ ~filename ->
            [c EXCEPT !.output = Append(@, Dataset(route)),
                      !.passed = Append(@, data_to_request(Dataset(route)))]
      [] outcome = "nodata" ->
            [c EXCEPT !.failed = Append(@, route.request_items),
                      !.raised = "FDSNNoDataException"]
      [] outcome = "fdsn_error" ->
            [c EXCEPT !.failed = Append(@, route.request_items),
                      !.raised = "FDSNException"]
      [] OTHER -> [c EXCEPT !.raised = "OtherError"]

requestErrorSwallowed(route, filename, outcome, c) ==
    CASE outcome = "data" /\ filename ->
            [c EXCEPT !.files = Append(@, route.provider_id)]
      [] outcome = "data" /\ ~filename ->
            [c EXCEPT !.output = Append(@, Dataset(route)),
                      !.passed = Append(@, data_to_request(Dataset(route)))]
      [] outcome = "nodata" ->
            [c EXCEPT !.failed = Append(@, route.request_items)]
      [] outcome = "fdsn_error" ->
            [c EXCEPT !.failed = Append(@, route.request_items)]
      [] OTHER -> [c EXCEPT !.raised = "OtherError"]

requestFileSinkSilent(route, filename, outcome, c) ==
    CASE outcome = "data" /\ filename ->
            [c EXCEPT !.files = Append(@, route.provider_id)]
      [] outcome = "data" /\ ~filename ->
            [c EXCEPT !.output = Append(@, Dataset(route)),
                      !.passed = Append(@, data_to_request(Dataset(route)))]
      [] outcome = "nodata" /\ filename -> c
      [] outcome = "nodata" /\ ~filename ->
            [c EXCEPT !.failed = Append(@, route.request_items)]
      [] outcome = "fdsn_error" /\ filename ->
            [c EXCEPT !.raised = "FDSNException"]
      [] outcome = "fdsn_error" /\ ~filename ->
            [c EXCEPT !.failed = Append(@, route.request_items),
                      !.raised = "FDSNException"]
      [] OTHER -> [c EXCEPT !.raised = "OtherError"]

request(route, filename, outcome, c) ==
    CASE outcome = "data" /\ filename ->
            \* lines 544-547: streamed to the file, nothing is put
            [c EXCEPT !.files = Append(@, route.provider_id)]
      [] outcome = "data" /\ ~filename ->
            \* lines 549-555
            [c EXCEPT !.output = Append(@, Dataset(route)),
                      !.passed = Append(@, data_to_request(Dataset(route)))]
      [] outcome = "nodata" ->
            \* lines 557-560
            [c EXCEPT !.failed = Append(@, route.request_items)]
      [] outcome = "fdsn_error" ->
            \* lines 562-566
            [c EXCEPT !.failed = Append(@, route.request_items),
                      !.raised = "FDSNException"]
      [] OTHER ->
            \* an exception neither except clause names
            [c EXCEPT !.raised = "OtherError"]

\* lines 616-618: if not data: raise FDSNNoDataException
FinalizeNoCheck(d) == "returned"

Finalize(d) == IF d = <<>> THEN "raised" ELSE "returned"

\* attempt_reroute, lines 900-906
ExtendReplaces(existing_data, more_data) ==
    IF more_data # <<>> THEN more_data ELSE existing_data

Extend(existing_data, more_data) ==
    IF more_data # <<>>
    THEN IF existing_data # <<>> THEN existing_data \o more_data
         ELSE more_data
    ELSE existing_data

-----------------------------------------------------------------------------
(* The top-level query methods, one action per step *)

Raise(e) ==
    /\ qpc' = "raised"
    /\ qerr' = e

\* A top-level method is called; distribute_args splits its options.
\* get_waveforms_bulk names filename in its signature (line 569), so the
\* option never reaches kwargs, svc_kwargs or _request.
QueryStart(m, io, rr, ex, fn) ==
    /\ qpc = "idle"
    /\ qargs' = [method |-> m, includeoverlaps |-> io, reroute |-> rr,
                 existing_routes |-> ex,
                 filename |-> (fn /\ m # "get_waveforms_bulk"),
                 bulk |-> <<>>, existing_data |-> <<>>]
    /\ qpc' = "route"
    /\ UNCHANGED <<plan, idx, pass, output, passed, failed, files, outcomes,
                   data, qerr, disc_log>>
    /\ UNCHANGED <<regVars, parseVars, auxVars>>

\* get_routing / get_routing_bulk: the request, an answer whose status
\* raise_for_status lets pass, parse_routing
RouteDiscovery(p) ==
    /\ qpc = "route"
    /\ ~qargs.existing_routes
    /\ \E st \in Statuses :
          /\ ~raise_for_status(st)
          /\ disc_log' = Append(disc_log,
                                [verb |-> RoutingVerb(qargs.method),
                                 includeoverlaps |-> qargs.includeoverlaps,
                                 by |-> qargs.method, bulk |-> <<"query">>,
                                 status |-> st])
    /\ plan' = p
    /\ idx' = 1
    /\ qpc' = "dispatch"
    /\ UNCHANGED <<qargs, pass, output, passed, failed, files, outcomes,
                   data, qerr>>
    /\ UNCHANGED <<regVars, parseVars, auxVars>>

\* get_routing / get_routing_bulk: resp.raise_for_status() raises
RouteDiscoveryFail ==
    /\ qpc = "route"
    /\ ~qargs.existing_routes
    /\ \E st \in Statuses :
          /\ raise_for_status(st)
          /\ disc_log' = Append(disc_log,
                                [verb |-> RoutingVerb(qargs.method),
                                 includeoverlaps |-> qargs.includeoverlaps,
                                 by |-> qargs.method, bulk |-> <<"query">>,
                                 status |-> st])
    /\ Raise("HTTPError")
    /\ UNCHANGED <<qargs, plan, idx, pass, output, passed, failed, files,
                   outcomes, data>>
    /\ UNCHANGED <<regVars, parseVars, auxVars>>

\* get_existing_route(existing_routes): the caller's plan is used
RouteExistingDiscovers(p) ==
    /\ qpc = "route"
    /\ qargs.existing_routes
    /\ \E st \in Statuses :
          /\ ~raise_for_status(st)
          /\ disc_log' = Append(disc_log,
                                [verb |-> RoutingVerb(qargs.method),
                                 includeoverlaps |-> qargs.includeoverlaps,
                                 by |-> qargs.method, bulk |-> <<"query">>,
                                 status |-> st])
    /\ plan' = p
    /\ idx' = 1
    /\ qpc' = "dispatch"
    /\ UNCHANGED <<qargs, pass, output, passed, failed, files, outcomes,
                   data, qerr>>
    /\ UNCHANGED <<regVars, parseVars, auxVars>>

RouteExisting(p) ==
    /\ qpc = "route"
    /\ qargs.existing_routes
    /\ plan' = p
    /\ idx' = 1
    /\ qpc' = "dispatch"
    /\ UNCHANGED <<qargs, pass, output, passed, failed, files, outcomes,
                   data, qerr, disc_log>>
    /\ UNCHANGED <<regVars, parseVars, auxVars>>

\* get_existing_route, lines 165-168: existing_routes is neither a manager,
\* a string nor a route; the NotImplementedError is built but not raised and
\* `return frm` fails on the unbound name
RouteExistingFail ==
    /\ qpc = "route"
    /\ qargs.existing_routes
    /\ Raise("UnboundLocalError")
    /\ UNCHANGED <<qargs, plan, idx, pass, output, passed, failed, files,
                   outcomes, data, disc_log>>
    /\ UNCHANGED <<regVars, parseVars, auxVars>>

\* query(), serial: _request of the next route; its exception leaves query()
\* and the top-level method
DispatchRoute(o) ==
    /\ qpc = "dispatch"
    /\ idx <= Len(plan)
    /\ LET c == request(plan[idx], qargs.filename, o,
                        [output |-> output, passed |-> passed,
                         failed |-> failed, files |-> files,
                         raised |-> "none"])
       IN  /\ output' = c.output
           /\ passed' = c.passed
           /\ failed' = c.failed
           /\ files' = c.files
           /\ outcomes' = Append(outcomes, o)
           /\ IF c.raised = "none"
              THEN /\ idx' = idx + 1
                   /\ UNCHANGED <<qpc, qerr>>
              ELSE /\ Raise(c.raised)
                   /\ UNCHANGED idx
    /\ UNCHANGED <<qargs, plan, pass, data, disc_log>>
    /\ UNCHANGED <<regVars, parseVars, auxVars>>

\* query() returns (data, passed, failed) of the primary pass; lines 612-618
QueryPrimaryDoneAlwaysReroutes ==
    /\ qpc = "dispatch"
    /\ pass = "primary"
    /\ idx > Len(plan)
    /\ data' = Flatten(output)
    /\ qpc' = "reroute"
    /\ UNCHANGED <<qargs, plan, idx, pass, output, passed, failed, files,
                   outcomes, qerr, disc_log>>
    /\ UNCHANGED <<regVars, parseVars, auxVars>>

QueryPrimaryDone ==
    /\ qpc = "dispatch"
    /\ pass = "primary"
    /\ idx > Len(plan)
    /\ data' = Flatten(output)
    /\ IF qargs.reroute /\ Flatten(failed) # <<>>
       THEN /\ qpc' = "reroute"
            /\ UNCHANGED qerr
       ELSE /\ qpc' = Finalize(Flatten(output))
            /\ qerr' = IF Finalize(Flatten(output)) = "raised"
                       THEN "FDSNNoDataException" ELSE "none"
    /\ UNCHANGED <<qargs, plan, idx, pass, output, passed, failed, files,
                   outcomes, disc_log>>
    /\ UNCHANGED <<regVars, parseVars, auxVars>>

\* attempt_reroute is called by an outside caller with the failed lines
\* `bulk`, fed_kwargs holding includeoverlaps = io, svc_kwargs holding a
\* filename when fn, and the dataset `existing`
AttemptReroute(bulk, existing, io, fn) ==
    /\ qpc = "idle"
    /\ qargs' = [method |-> "attempt_reroute", includeoverlaps |-> io,
                 reroute |-> TRUE, existing_routes |-> FALSE,
                 filename |-> fn, bulk |-> bulk, existing_data |-> existing]
    /\ failed' = bulk
    /\ data' = existing
    /\ qpc' = "reroute"
    /\ UNCHANGED <<plan, idx, pass, output, passed, files, outcomes, qerr,
                   disc_log>>
    /\ UNCHANGED <<regVars, parseVars, auxVars>>

\* attempt_reroute, line 889: assert "filename" not in svc_kwargs
RerouteRefusedAfterDiscovery ==
    /\ qpc = "reroute"
    /\ qargs.filename
    /\ \E st \in Statuses :
          /\ ~raise_for_status(st)
          /\ disc_log' = Append(disc_log,
                                [verb |-> "POST", includeoverlaps |-> TRUE,
                                 by |-> "attempt_reroute",
                                 bulk |-> Flatten(failed), status |-> st])
    /\ Raise("AssertionError")
    /\ UNCHANGED <<qargs, plan, idx, pass, output, passed, failed, files,
                   outcomes, data>>
    /\ UNCHANGED <<regVars, parseVars, auxVars>>

RerouteRefused ==
    /\ qpc = "reroute"
    /\ qargs.filename
    /\ Raise("AssertionError")
    /\ UNCHANGED <<qargs, plan, idx, pass, output, passed, failed, files,
                   outcomes, data, disc_log>>
    /\ UNCHANGED <<regVars, parseVars, auxVars>>

\* attempt_reroute, lines 895-897: includeoverlaps is forced, the failed lines
\* are posted to the fedcatalog, and query() starts on the plan it answers
RerouteDiscoveryAsPassed(p) ==
    /\ qpc = "reroute"
    /\ ~qargs.filename
    /\ \E st \in Statuses :
          /\ ~raise_for_status(st)
          /\ disc_log' = Append(disc_log,
                                [verb |-> "POST",
                                 includeoverlaps |-> qargs.includeoverlaps,
                                 by |-> "attempt_reroute",
                                 bulk |-> Flatten(failed), status |-> st])
    /\ plan' = p
    /\ idx' = 1
    /\ pass' = "reroute"
    /\ output' = <<>>
    /\ passed' = <<>>
    /\ failed' = <<>>
    /\ outcomes' = <<>>
    /\ qpc' = "dispatch"
    /\ UNCHANGED <<qargs, files, data, qerr>>
    /\ UNCHANGED <<regVars, parseVars, auxVars>>

RerouteDiscovery(p) ==
    /\ qpc = "reroute"
    /\ ~qargs.filename
    /\ \E st \in Statuses :
          /\ ~raise_for_status(st)
          /\ disc_log' = Append(disc_log,
                                [verb |-> "POST", includeoverlaps |-> TRUE,
                                 by |-> "attempt_reroute",
                                 bulk |-> Flatten(failed), status |-> st])
    /\ plan' = p
    /\ idx' = 1
    /\ pass' = "reroute"
    /\ output' = <<>>
    /\ passed' = <<>>
    /\ failed' = <<>>
    /\ outcomes' = <<>>
    /\ qpc' = "dispatch"
    /\ UNCHANGED <<qargs, files, data, qerr>>
    /\ UNCHANGED <<regVars, parseVars, auxVars>>

\* attempt_reroute, line 896: resp.raise_for_status() raises
RerouteDiscoveryFail ==
    /\ qpc = "reroute"
    /\ ~qargs.filename
    /\ \E st \in Statuses :
          /\ raise_for_status(st)
          /\ disc_log' = Append(disc_log,
                                [verb |-> "POST", includeoverlaps |-> TRUE,
                                 by |-> "attempt_reroute",
                                 bulk |-> Flatten(failed), status |-> st])
    /\ Raise("HTTPError")
    /\ UNCHANGED <<qargs, plan, idx, pass, output, passed, failed, files,
                   outcomes, data>>
    /\ UNCHANGED <<regVars, parseVars, auxVars>>

\* attempt_reroute, lines 900-910; it returns to the top-level method, which
\* goes on with its lines 616-618, or to the outside caller ("rerouted")
QueryRerouteDone ==
    /\ qpc = "dispatch"
    /\ pass = "reroute"
    /\ idx > Len(plan)
    /\ data' = Extend(data, Flatten(output))
    /\ qpc' = IF qargs.method = "attempt_reroute" THEN "rerouted"
              ELSE Finalize(Extend(data, Flatten(output)))
    /\ qerr' = IF /\ qargs.method # "attempt_reroute"
                  /\ Finalize(Extend(data, Flatten(output))) = "raised"
               THEN "FDSNNoDataException" ELSE "none"
    /\ UNCHANGED <<qargs, plan, idx, pass, output, passed, failed, files,
                   outcomes, disc_log>>
    /\ UNCHANGED <<regVars, parseVars, auxVars>>

\* The registry as construction leaves it when the directory cannot be read
RegistryAtRest ==
    /\ providers = EmptyDict
    /\ failed_refreshes = 1
    /\ lock = NoThread
    /\ pc = [t \in Threads |-> "idle"]
    /\ force = [t \in Threads |-> FALSE]
    /\ ridx = [t \in Threads |-> 1]
    /\ ret = [t \in Threads |-> "none"]
    /\ requested = [t \in Threads |-> FALSE]
    /\ reported = [t \in Threads |-> FALSE]
    /\ span = [old |-> EmptyDict, new |-> EmptyDict]
    /\ rpc = "idle"
    /\ rarg = <<>>
    /\ rres = NoResult
    /\ rkeys = {}

InitQuery == QueryIdle /\ RegistryAtRest /\ ParseIdle /\ AuxIdle

NextQuery ==
    \/ \E m \in Methods, io \in BOOLEAN, rr \in BOOLEAN, ex \in BOOLEAN,
          fn \in BOOLEAN : QueryStart(m, io, rr, ex, fn)
    \/ \E p \in PlansUpTo(MaxRoutes) : RouteDiscovery(p)
    \/ RouteDiscoveryFail
    \/ \E p \in PlansUpTo(MaxRoutes) : RouteExisting(p)
    \/ RouteExistingFail
    \/ \E bulk \in FailedInputs, existing \in ExistingInputs,
          io \in BOOLEAN, fn \in BOOLEAN :
          AttemptReroute(bulk, existing, io, fn)
    \/ \E o \in Outcomes : DispatchRoute(o)
    \/ QueryPrimaryDone
    \/ RerouteRefused
    \/ \E p \in PlansUpTo(MaxReroutes) : RerouteDiscovery(p)
    \/ RerouteDiscoveryFail
    \/ QueryRerouteDone

SpecQuery == InitQuery /\ [][NextQuery]_vars

\* Every call made (discovery request, provider request) comes back: a step
\* that can be taken is taken.
SpecQueryLive == InitQuery /\ [][NextQuery]_vars /\ WF_vars(NextQuery)

-----------------------------------------------------------------------------
(* Properties of the dispatch / reroute controller *)

\* The provider calls of this pass return datasets, not files.
InMemory == qpc \notin {"idle", "route"} /\ ~qargs.filename

\* C1: in an in-memory dispatch a provider's no-data answer raises nothing:
\* its route's request lines are in the failed collector and dispatch goes on
\* to the next route; when of two routes one has no data and the other
\* returns a dataset, in either order, that dataset is in the merged-result
\* collector and is the merged result.
C1_NoDataIsNotFatal ==
    (InMemory /\ pass = "primary") =>
        /\ \A k \in DOMAIN outcomes :
              outcomes[k] = "nodata" =>
                  /\ idx > k
                  /\ plan[k].request_items \in Range(failed)
        /\ \A a, b \in 1..2 :
              (/\ Len(plan) = 2
               /\ Len(outcomes) = 2
               /\ outcomes[a] = "nodata"
               /\ outcomes[b] = "data") =>
                  /\ idx = 3
                  /\ output = <<Dataset(plan[b])>>
                  /\ failed = <<plan[a].request_items>>
                  /\ qpc = "dispatch" => qerr = "none"
                  /\ qpc # "dispatch" => data = Dataset(plan[b])

\* C1 witness: provider A had no data, provider B returned a dataset, and
\* the loop over the two routes is over.
C1_NoDataThenData ==
    /\ InMemory
    /\ pass = "primary"
    /\ qpc = "dispatch"
    /\ Len(plan) = 2
    /\ plan[1].provider_id = "A"
    /\ plan[2].provider_id = "B"
    /\ outcomes = <<"nodata", "data">>
    /\ output # <<>>
    /\ failed # <<>>

\* C2: in in-memory mode, whenever a provider call fails with anything but
\* no-data, the route's request lines are in the failed collector when the
\* failure leaves the dispatch, and the route has put nothing in the
\* merged-result and succeeded collectors.
C2_AnyFailureIsRecorded ==
    (InMemory /\ qpc = "raised" /\ qerr \in {"FDSNException", "OtherError"})
    => /\ failed # <<>>
       /\ failed[Len(failed)] = plan[idx].request_items
       /\ Len(failed) = Count(outcomes, "nodata") + 1
       /\ Len(output) = Count(outcomes, "data")
       /\ Len(passed) = Count(outcomes, "data")

\* C3: a top-level query that completes dispatch and optional reroute
\* returns a non-empty merged dataset or fails with the no-data error; it
\* never returns an empty dataset.
C3_ReturnedDataIsNotEmpty ==
    /\ qpc = "returned" => (data # <<>> /\ qerr = "none")
    /\ (qpc = "raised" /\ qerr = "FDSNNoDataException") =>
          (data = <<>> /\ idx > Len(plan))

\* C3 witness: a query returned data after its reroute pass.
C3_ReturnedAfterReroute ==
    /\ qpc = "returned"
    /\ pass = "reroute"
    /\ Len(disc_log) = 2
    /\ data # <<>>

\* A top-level query is dispatching, or has dispatched, to files.
FileSink ==
    /\ qpc \notin {"idle", "route"}
    /\ qargs.method \in Methods
    /\ qargs.filename

\* C15 as stated: in file-sink mode dispatching a route adds no entry to the
\* succeeded, failed or merged-result collectors, whatever the provider call
\* ends with.
C15_FileSinkPutsNothing ==
    FileSink => (output = <<>> /\ passed = <<>> /\ failed = <<>>)

\* C15 amended: in file-sink mode no route adds an entry to the
\* merged-result or succeeded collectors; a success adds nothing to any
\* collector, but a no-data answer or a provider-service failure still puts
\* the route's request lines in the failed collector.
C15_FileSinkStillRecordsFailures ==
    FileSink =>
        /\ output = <<>>
        /\ passed = <<>>
        /\ Len(files) = Count(outcomes, "data")
        /\ Len(failed) = Count(outcomes, "nodata")
                            + Count(outcomes, "fdsn_error")
        /\ \A k \in DOMAIN failed : \E j \in DOMAIN outcomes :
              /\ outcomes[j] \in {"nodata", "fdsn_error"}
              /\ failed[k] = plan[j].request_items

\* C15 witness: in file-sink mode one provider streamed its answer to a file
\* and the next had no data.
C15_FileThenNoData ==
    /\ FileSink
    /\ outcomes = <<"data", "nodata">>
    /\ Len(files) = 1
    /\ Len(failed) = 1

\* C16: attempt_reroute called with a file-sink destination among the
\* provider-bound options fails before any discovery request or provider
\* call is made and leaves the existing dataset as it was.
C16_RerouteRefusesFileSink ==
    /\ (qpc \notin {"idle", "route"} /\ qargs.filename) =>
          /\ pass = "primary"
          /\ \A i \in DOMAIN disc_log : disc_log[i].by # "attempt_reroute"
          /\ qpc \notin {"returned", "rerouted"} \/ ~qargs.reroute
                \/ Flatten(failed) = <<>>
    /\ qerr = "AssertionError" =>
          /\ qpc = "raised"
          /\ qargs.filename
          /\ IF qargs.method = "attempt_reroute"
             THEN /\ data = qargs.existing_data
                  /\ outcomes = <<>>
                  /\ disc_log = <<>>
             ELSE /\ data = Flatten(output)
                  /\ Len(outcomes) = Len(plan)

\* C16 witness: attempt_reroute was called with a filename, failed lines and
\* a dataset, and raised its assertion.
C16_RefusedWithExistingData ==
    /\ qpc = "raised"
    /\ qerr = "AssertionError"
    /\ qargs.method = "attempt_reroute"
    /\ qargs.bulk # <<>>
    /\ data # <<>>

\* C17: a call of attempt_reroute whose failed-line input is empty performs
\* no network call (no discovery request, no provider request) and returns
\* the existing dataset unchanged.
C17_EmptyRerouteIsNoop ==
    (/\ qpc # "idle"
     /\ qargs.method = "attempt_reroute"
     /\ qargs.bulk = <<>>
     /\ ~qargs.filename) =>
        /\ disc_log = <<>>
        /\ outcomes = <<>>
        /\ data = qargs.existing_data

\* C18: the dataset attempt_reroute returns holds every item of the existing
\* dataset in its order, followed by the items retrieved in the reroute
\* pass; when the pass retrieved nothing it is the existing dataset.
C18_RerouteAppends ==
    [][(/\ qpc = "dispatch"
        /\ pass = "reroute"
        /\ idx > Len(plan)
        /\ qpc' # qpc) => data' = data \o Flatten(output)]_vars

\* C18 witness: attempt_reroute returned a dataset made of existing items
\* followed by newly retrieved ones.
C18_ExistingThenNew ==
    /\ qpc \in {"returned", "rerouted"}
    /\ pass = "reroute"
    /\ Flatten(output) # <<>>
    /\ Len(data) > Len(Flatten(output))

\* C19: the discovery request of a reroute carries includeoverlaps true
\* whatever the caller passed; the request of the primary pass carries the
\* caller's value.
C19_RerouteForcesOverlaps ==
    \A i \in DOMAIN disc_log :
        IF disc_log[i].by = "attempt_reroute"
        THEN disc_log[i].includeoverlaps
        ELSE disc_log[i].includeoverlaps = qargs.includeoverlaps

\* C19 witness: a top-level query called with includeoverlaps false has sent
\* its reroute request.
C19_ReroutedWithoutOverlaps ==
    /\ qpc # "idle"
    /\ qargs.method \in Methods
    /\ ~qargs.includeoverlaps
    /\ Len(disc_log) = 2
    /\ disc_log[2].by = "attempt_reroute"

\* C20: a top-level query given existing_routes sends nothing to the
\* discovery service in its primary pass; the routes it dispatches are those
\* of the supplied plan, in order.
C20_ExistingRoutesSkipDiscovery ==
    (/\ qpc \notin {"idle", "route"}
     /\ qargs.method \in Methods
     /\ qargs.existing_routes) =>
        /\ \A i \in DOMAIN disc_log : disc_log[i].by = "attempt_reroute"
        /\ pass = "primary" =>
              /\ qpc \in {"dispatch", "reroute", "returned"} => disc_log = <<>>
              /\ Len(outcomes) <= Len(plan)
              /\ Len(outcomes) \in {idx - 1, idx}
              /\ (qpc \in {"reroute", "returned"}
                    \/ qerr \in {"FDSNNoDataException", "AssertionError"})
                    => Len(outcomes) = Len(plan)

\* C20 witness: a query given a plan of two routes returned data after
\* dispatching both, with no discovery request sent.
C20_SuppliedPlanDispatched ==
    /\ qpc = "returned"
    /\ qargs.existing_routes
    /\ pass = "primary"
    /\ Len(plan) = 2
    /\ Len(outcomes) = 2
    /\ disc_log = <<>>

\* The primary routing query of a top-level method was answered with `st`.
PrimaryAnswered(st) ==
    /\ qpc # "idle"
    /\ qargs.method \in Methods
    /\ disc_log # <<>>
    /\ disc_log[1].by = qargs.method
    /\ disc_log[1].status = st

C25_FailureStopsDispatch ==
    \A k \in DOMAIN outcomes :
        outcomes[k] = "fdsn_error" =>
            /\ k = Len(outcomes)
            /\ idx = k
            /\ qpc = "raised"
            /\ qerr = "FDSNException"
            /\ ~ENABLED DispatchRoute("data")
            /\ Len(output) + Len(files) = Count(outcomes, "data")
            /\ Len(passed) = Len(output)
            /\ Len(failed) = Count(outcomes, "nodata") + 1
            /\ failed[Len(failed)] = plan[k].request_items

\* C25 witness: the first of two routes raised a provider-service failure.
C25_FirstOfTwoFailed ==
    /\ qpc = "raised"
    /\ Len(plan) = 2
    /\ outcomes = <<"fdsn_error">>
    /\ plan[2].request_items # <<>>

\* The discovery requests sent by `who`
SentBy(who) == {i \in DOMAIN disc_log : disc_log[i].by = who}

Terminated == qpc \in {"returned", "raised", "rerouted"}

\* C30: every top-level query terminates after at most two discovery
\* requests: at most one for the primary routing, none when a plan is
\* supplied, and at most one for the reroute; the reroute pass is entered at
\* most once, only when reroute is requested and failed lines exist, and
\* what fails in the reroute pass is not rerouted again.
C30_AtMostTwoDiscoveries ==
    /\ []((qpc # "idle" /\ qargs.method \in Methods) =>
            /\ Len(disc_log) <= 2
            /\ Cardinality(SentBy(qargs.method))
                  <= (IF qargs.existing_routes THEN 0 ELSE 1)
            /\ Cardinality(SentBy("attempt_reroute")) <= 1
            /\ \A i \in SentBy("attempt_reroute") :
                  /\ qargs.reroute
                  /\ disc_log[i].bulk # <<>>
                  /\ i = Len(disc_log)
            /\ qpc = "reroute" =>
                  (qargs.reroute /\ Flatten(failed) # <<>>
                      /\ pass = "primary" /\ SentBy("attempt_reroute") = {})
            /\ (pass = "reroute" /\ idx > Len(plan) /\ qpc # "dispatch")
                  => Terminated)
    /\ <>Terminated

\* C30 witness: a query ended after a primary and a reroute discovery
\* request, with lines that failed again in the reroute pass.
C30_FailedAgainAndEnded ==
    /\ qpc \in {"returned", "raised"}
    /\ qargs.method \in Methods
    /\ Len(disc_log) = 2
    /\ pass = "reroute"
    /\ idx > Len(plan)
    /\ failed # <<>>

-----------------------------------------------------------------------------
(* Properties of the provider registry *)

\* No refresh is between replacing the dict and leaving the REMAPS loop.
NoRemapInFlight == \A t \in Threads : pc[t] # "remap"

\* C4: when two or more threads call refresh concurrently, no caller ever
\* waits for the guard: at no time is a thread about to enter the with block
\* while another thread holds the lock.
C4_NoCallerWaitsForGuard ==
    \A t \in Threads : ~(pc[t] = "acquire" /\ lock # NoThread)

\* C5: after any sequence of refresh calls the record collection is the one
\* built from the most recent successful directory response; a failed
\* refresh leaves the collection it found.
C5_CollectionIsLastGood ==
    NoRemapInFlight => providers = span.new

\* C5 witness: a refresh has just failed on a registry that holds records.
C5_FailedOnFilledRegistry ==
    /\ \E t \in Threads : ret[t] = "failed"
    /\ failed_refreshes >= 2
    /\ providers # EmptyDict
    /\ NoRemapInFlight

\* C6: a reader running beside a successful refresh sees the keys of the
\* complete previous collection or of the complete new collection, alias
\* keys included, never those of a collection in between.
C6_ReaderSeesOldOrNew ==
    [][rkeys' # rkeys => rkeys' \in {DOMAIN span.old, DOMAIN span.new}]_vars

\* C7 as stated: whenever a refresh attempt proceeds while the counter is
\* greater than 3, the error has been reported when the request is issued,
\* for forced and non-forced attempts alike.
C7_ReportedWheneverOverThree ==
    \A t \in Threads :
        (pc[t] = "wait" /\ failed_refreshes > 3) => reported[t]

\* C7 amended: the error is reported exactly when the counter is greater
\* than 3 and the attempt is not forced; the directory request is issued
\* whatever the counter and the force flag are.
C7_ReportedIffOverThreeAndNotForced ==
    \A t \in Threads :
        /\ pc[t] = "wait" =>
              /\ requested[t]
              /\ reported[t] <=> (failed_refreshes > 3 /\ ~force[t])
        /\ pc[t] = "locked" => ENABLED RefreshRequest(t)

\* C7 witness: a non-forced attempt with the counter above 3 has reported the
\* error and issued its request.
C7_ReportedAndRequested ==
    \E t \in Threads :
        /\ pc[t] = "wait"
        /\ failed_refreshes > 3
        /\ ~force[t]
        /\ reported[t]
        /\ requested[t]

\* C8: refresh with force false on a non-empty registry issues no directory
\* request and leaves the collection, the counter and the lock unchanged.
C8_NoopLeavesRegistryAlone ==
    [][\A t \in Threads :
          (providers # EmptyDict /\ RefreshEnter(t, FALSE)) =>
              /\ UNCHANGED <<providers, failed_refreshes, lock>>
              /\ pc'[t] = "idle"
              /\ ret'[t] = "noop"
              /\ ~requested'[t]]_vars

\* C8 witness: a non-forced refresh returned at once on a non-empty registry
\* whose counter is positive and whose lock another thread holds.
C8_NoopReturned ==
    \E t \in Threads :
        /\ ret[t] = "noop"
        /\ ~requested[t]
        /\ providers # EmptyDict
        /\ failed_refreshes > 0
        /\ lock # NoThread

\* C9: get(name, detail) never fails with an exception, whatever the name
\* and the detail are.
C9_GetNeverRaises == rres.kind # "KeyError"

\* C10: after a successful refresh, every alias pair whose native id the
\* directory listed has its canonical id as a key holding the same record,
\* and lookups by either id agree.
C10_AliasResolvesToNativeRecord ==
    NoRemapInFlight =>
        \A i \in DOMAIN REMAPS :
            REMAPS[i][1] \in DOMAIN providers =>
                /\ REMAPS[i][2] \in DOMAIN providers
                /\ providers[REMAPS[i][2]] = providers[REMAPS[i][1]]
                /\ pretty(providers, REMAPS[i][2])
                      = pretty(providers, REMAPS[i][1])
                /\ \A d \in DetailArgs :
                      get(providers, REMAPS[i][2], d)
                         = get(providers, REMAPS[i][1], d)

\* C10 witness: a refresh succeeded on a response listing two native ids.
C10_TwoNativesRemapped ==
    /\ \E t \in Threads : ret[t] = "ok"
    /\ NoRemapInFlight
    /\ "IRISDMC" \in DOMAIN providers
    /\ "GEOFON" \in DOMAIN providers
    /\ "GFZ" \in DOMAIN providers

\* C28: the consecutive-failure counter counts the refresh attempts that
\* failed since the last successful one: an attempt that succeeds sets it to
\* 0, an attempt that fails adds exactly 1, and no other step of refresh, a
\* call skipped as a no-op included, changes it.
C28_CounterCountsFailures ==
    [][/\ \A t \in Threads :
             /\ (pc[t] = "wait" /\ pc'[t] = "remap") => failed_refreshes' = 0
             /\ (pc[t] = "wait" /\ pc'[t] = "idle") =>
                   /\ failed_refreshes' = failed_refreshes + 1
                   /\ ret'[t] = "failed"
             /\ (providers # EmptyDict /\ RefreshEnter(t, FALSE)) =>
                   UNCHANGED failed_refreshes
       /\ (\A t \in Threads : pc[t] # "wait" \/ pc'[t] = "wait")
             => UNCHANGED failed_refreshes
       /\ failed_refreshes' >= 0]_vars

\* C28 witness: after three failed attempts on a registry that holds
\* records, one thread's call was skipped as a no-op and the counter is 3.
C28_NoopKeepsThree ==
    /\ failed_refreshes = 3
    /\ providers # EmptyDict
    /\ ret["t1"] = "noop"
    /\ ret["t2"] = "failed"

\* A thread is inside the with block of refresh
InsideGuard(t) == pc[t] \in {"locked", "wait", "remap"}

\* C31: the lock of refresh is released on every exit of an attempt, after
\* a success and after a failure: the lock is held only by a thread that is
\* inside the with block, so it is free whenever no refresh is executing,
\* and a call returns at the lock test only while another thread's attempt
\* is executing.
C31_GuardHeldOnlyWhileRefreshing ==
    /\ []((\A t \in Threads : ~InsideGuard(t)) => lock = NoThread)
    /\ [](lock # NoThread => InsideGuard(lock))
    /\ [][\A t \in Threads :
             (pc[t] = "check" /\ pc'[t] = "idle") =>
                 /\ ret'[t] = "inflight"
                 /\ \E u \in Threads \ {t} : InsideGuard(u)]_vars

\* C31 witness: after one thread's attempt failed on an empty registry and
\* left, the other thread's later call passed the lock test and holds the
\* lock.
C31_AcquiredAfterFailure ==
    /\ ret["t1"] = "failed"
    /\ pc["t1"] = "idle"
    /\ providers = EmptyDict
    /\ failed_refreshes >= 2
    /\ lock = "t2"
    /\ pc["t2"] = "locked"

-----------------------------------------------------------------------------
(* FederatedRoutingManager.parse_routing: data *)

\* The classified lines of a discovery response (FedcatResponseLine)
ParamKeys == {"level", "minlat"}
ParamVals == {"v1", "v2"}
DcIds == {"IRISDMC", "USPSC", "INGV"}
SelectorLines == {"l1", "l2"}

Line(k, x, y) == [kind |-> k, a |-> x, b |-> y]

Lines ==
    {Line("blank", "", "")}
    \cup {Line("param", k, v) : k \in ParamKeys, v \in ParamVals}
    \cup {Line("datacenter", d, "url") : d \in DcIds}
    \cup {Line("service", "STATIONSERVICE", "url")}
    \cup {Line("request", l, "") : l \in SelectorLines}

\* state.next(line): the parser state a line leads to, "invalid" when the
\* grammar has no place for the line
NextState(st, kind) ==
    CASE st = "PreParse" ->
            (CASE kind = "blank" -> "PreParse"
               [] kind = "param" -> "ParameterItem"
               [] kind = "datacenter" -> "DatacenterItem"
               [] OTHER -> "invalid")
      [] st = "ParameterItem" ->
            (CASE kind = "param" -> "ParameterItem"
               [] kind = "blank" -> "EmptyItem"
               [] OTHER -> "invalid")
      [] st = "EmptyItem" ->
            (CASE kind = "blank" -> "EmptyItem"
               [] kind = "param" -> "ParameterItem"
               [] kind = "datacenter" -> "DatacenterItem"
               [] OTHER -> "invalid")
      [] st = "DatacenterItem" ->
            (CASE kind = "service" -> "ServiceItem"
               [] kind = "request" -> "RequestItem"
               [] kind = "blank" -> "EmptyItem"
               [] OTHER -> "invalid")
      [] st = "ServiceItem" ->
            (CASE kind = "service" -> "ServiceItem"
               [] kind = "request" -> "RequestItem"
               [] kind = "blank" -> "EmptyItem"
               [] OTHER -> "invalid")
      [] st = "RequestItem" ->
            (CASE kind = "request" -> "RequestItem"
               [] kind = "blank" -> "EmptyItem"
               [] OTHER -> "invalid")
      [] OTHER -> "invalid"

\* FederatedRoute(provider_id) as DatacenterItem.parse returns it; `ref` is
\* the reference of its parameters mapping
FederatedRoute(id, ref) ==
    [provider_id |-> id, request_items |-> <<>>,
     services |-> <<"DATACENTER">>, parameters |-> ref]

\* line 1009, provider.parameters = parameters: the route holds the captured
\* reference `shared`; the mapping `fresh` it was constructed with is dropped
AttachParametersCopy(h, fresh, shared) ==
    [heap |-> [r \in DOMAIN h \cup {fresh} |->
                  IF r = fresh THEN h[shared] ELSE h[r]],
     ref |-> fresh]

AttachParameters(h, fresh, shared) == [heap |-> h, ref |-> shared]

\* line 1010: fed_resp.append(provider)
PrependRoute(fr, route) == <<route>> \o fr

AppendRoute(fr, route) == Append(fr, route)

\* lines 1013-1014
drop_trailingAllEmpty(fr) == SelectSeq(fr, LAMBDA r : r.request_items # <<>>)

drop_trailingNever(fr) == fr

drop_trailing(fr) ==
    IF Len(fr) > 0 /\ fr[Len(fr)].request_items = <<>>
    THEN SubSeq(fr, 1, Len(fr) - 1)
    ELSE fr

\* lines 1016-1021: the alias table of the parser
remap == << <<"IRISDMC", "IRIS">>, <<"GEOFON", "GFZ">>,
            <<"SED", "ETH">>, <<"USPSC", "USP">> >>

\* lines 1025-1026
RemapIdByREMAPS(id) ==
    IF \E i \in DOMAIN REMAPS : REMAPS[i][1] = id
    THEN REMAPS[CHOOSE i \in DOMAIN REMAPS : REMAPS[i][1] = id][2]
    ELSE id

RemapId(id) ==
    IF \E i \in DOMAIN remap : remap[i][1] = id
    THEN remap[CHOOSE i \in DOMAIN remap : remap[i][1] = id][2]
    ELSE id

\* lines 1024-1026: for prov in fed_resp
RemapAll(fr) ==
    [i \in DOMAIN fr |-> [fr[i] EXCEPT !.provider_id = RemapId(@)]]

-----------------------------------------------------------------------------
(* FederatedRoutingManager.parse_routing: one action per step *)

\* lines 1002-1012: one iteration of the loop over the lines of block_text
ParseLine(line) ==
    /\ ppc = "lines"
    /\ Len(text) < MaxLines
    /\ NextState(state, line.kind) # "invalid"
    /\ text' = Append(text, line)
    /\ state' = NextState(state, line.kind)
    /\ IF NextState(state, line.kind) = "DatacenterItem"
       THEN LET captured == IF fed_resp = <<>> THEN 0 ELSE parameters
                att == AttachParameters(heap, Len(fed_resp) + 1, captured)
            IN  /\ parameters' = captured
                /\ heap' = att.heap
                /\ fed_resp' = AppendRoute(fed_resp,
                                           FederatedRoute(line.a, att.ref))
       ELSE LET cur == Len(fed_resp)
                ref == IF cur = 0 THEN 0 ELSE fed_resp[cur].parameters
            IN  /\ UNCHANGED parameters
                /\ heap' = IF line.kind = "param"
                           THEN [heap EXCEPT
                                   ![ref] = DictSet(@, line.a, line.b)]
                           ELSE heap
                /\ fed_resp' =
                      CASE line.kind = "request" /\ cur > 0 ->
                              [fed_resp EXCEPT ![cur].request_items =
                                                   Append(@, line.a)]
                        [] line.kind = "service" /\ cur > 0 ->
                              [fed_resp EXCEPT ![cur].services =
                                                   Append(@, line.a)]
                        [] OTHER -> fed_resp
    /\ UNCHANGED ppc
    /\ UNCHANGED <<regVars, qVars, auxVars>>

\* lines 1013-1027: the text is read; the trailing route is dropped, the
\* provider ids are remapped and the list is returned
ParseFinish ==
    /\ ppc = "lines"
    /\ fed_resp' = RemapAll(drop_trailing(fed_resp))
    /\ ppc' = "returned"
    /\ UNCHANGED <<text, state, parameters, heap>>
    /\ UNCHANGED <<regVars, qVars, auxVars>>

\* a caller sets route.parameters[k] = v on route r of the returned plan
ParseMutate(r, k, v) ==
    /\ ppc \in {"returned", "mutated"}
    /\ r \in DOMAIN fed_resp
    /\ heap' = [heap EXCEPT ![fed_resp[r].parameters] = DictSet(@, k, v)]
    /\ ppc' = "mutated"
    /\ UNCHANGED <<text, state, fed_resp, parameters>>
    /\ UNCHANGED <<regVars, qVars, auxVars>>

InitParse == ParseIdle /\ QueryIdle /\ RegistryAtRest /\ AuxIdle

NextParse ==
    \/ \E line \in Lines : ParseLine(line)
    \/ ParseFinish
    \/ \E r \in 1..MaxLines, k \in ParamKeys, v \in ParamVals :
          ParseMutate(r, k, v)

SpecParse == InitParse /\ [][NextParse]_vars

-----------------------------------------------------------------------------
(* Properties of parse_routing *)

\* What the response text says, read block by block: the request lines of
\* each provider block, in the order of the DATACENTER lines
RECURSIVE ExpectedItems(_)
ExpectedItems(t) ==
    IF t = <<>> THEN <<>>
    ELSE LET front == ExpectedItems(SubSeq(t, 1, Len(t) - 1))
             l == t[Len(t)]
         IN  IF l.kind = "datacenter" THEN Append(front, <<>>)
             ELSE IF l.kind = "request" /\ front # <<>>
                  THEN [front EXCEPT ![Len(front)] = Append(@, l.a)]
                  ELSE front

\* The provider ids of the DATACENTER lines of the text, in order
ExpectedIds(t) ==
    LET dcs == SelectSeq(t, LAMBDA l : l.kind = "datacenter")
    IN  [i \in DOMAIN dcs |-> dcs[i].a]

\* The key=value lines that precede the first DATACENTER line, as a mapping
RECURSIVE LeadingParams(_)
LeadingParams(t) ==
    IF t = <<>> THEN EmptyDict
    ELSE LET front == SubSeq(t, 1, Len(t) - 1)
             l == t[Len(t)]
         IN  IF l.kind = "param" /\ ExpectedIds(front) = <<>>
             THEN DictSet(LeadingParams(front), l.a, l.b)
             ELSE LeadingParams(front)

ItemsOf(fr) == [i \in DOMAIN fr |-> fr[i].request_items]

PlanReturned == ppc \in {"returned", "mutated"}

\* C11: parse_routing removes at most one route from those it built, only
\* the last one and only when it has no request lines; every other route,
\* an empty one that is not last included, is kept with every request line
\* the text gave it.
C11_DropsOnlyEmptyLastRoute ==
    PlanReturned =>
        LET e == ExpectedItems(text)
            n == Len(e)
        IN  ItemsOf(fed_resp) = IF n > 0 /\ e[n] = <<>>
                                THEN SubSeq(e, 1, n - 1)
                                ELSE e

\* C11 witness: the text had an empty block, a block of two lines and a
\* last empty block; the plan keeps the first two.
C11_EmptyKeptLastDropped ==
    /\ ppc = "returned"
    /\ ExpectedItems(text) = << <<>>, <<"l1">>, <<>> >>
    /\ Len(fed_resp) = 2

\* C12 as stated: every returned plan is empty or ends with a route that has
\* at least one request line, for every response.
C12_PlanNeverEndsEmpty ==
    PlanReturned =>
        (fed_resp = <<>> \/ fed_resp[Len(fed_resp)].request_items # <<>>)

\* C12 amended: a returned plan ends with a route without request lines
\* exactly when the response ends with two or more provider blocks without
\* selector lines (only the last of them is dropped); a response of two
\* blocks whose second has no selector lines yields exactly the first route.
C12_EndsEmptyIffTwoEmptyBlocksTrail ==
    PlanReturned =>
        LET e == ExpectedItems(text)
            n == Len(e)
        IN  /\ (fed_resp # <<>> /\ fed_resp[Len(fed_resp)].request_items = <<>>)
               <=> (n >= 2 /\ e[n] = <<>> /\ e[n - 1] = <<>>)
            /\ (n = 2 /\ e[2] = <<>>) =>
                  /\ Len(fed_resp) = 1
                  /\ fed_resp[1].request_items = e[1]
                  /\ fed_resp[1].provider_id = RemapId(ExpectedIds(text)[1])

\* C12 witness: two blocks, the first with a selector line, the second with
\* none; the plan is the first route.
C12_SecondBlockEmpty ==
    /\ ppc = "returned"
    /\ ExpectedItems(text) = << <<"l1">>, <<>> >>
    /\ Len(fed_resp) = 1
    /\ fed_resp[1].request_items = <<"l1">>

\* C13: all routes of a plan hold one parameters mapping, the one that
\* accumulated the key=value lines before the first DATACENTER line and was
\* captured at that line; a parameter set through one route is seen through
\* every other route.
C13_RoutesShareParameters ==
    /\ \A i \in DOMAIN fed_resp :
          /\ fed_resp[i].parameters = 0
          /\ parameters = 0
          /\ heap[fed_resp[i].parameters] = heap[fed_resp[1].parameters]
    /\ (state = "DatacenterItem" /\ Len(ExpectedIds(text)) = 1 /\ ppc = "lines")
          => heap[fed_resp[1].parameters] = LeadingParams(text)

\* C13 witness: a plan of two routes read after a leading parameter; a
\* caller has changed a parameter through one of the routes.
C13_MutatedSharedParameters ==
    /\ ppc = "mutated"
    /\ Len(fed_resp) = 2
    /\ LeadingParams(text) # EmptyDict
    /\ heap[fed_resp[2].parameters] # LeadingParams(text)

\* C14: in a returned plan no route carries a native id of the parser's
\* alias table: IRISDMC, GEOFON, SED and USPSC are replaced by IRIS, GFZ,
\* ETH and USP; any other id is left as the response gave it.
C14_NativeIdsAreReplaced ==
    PlanReturned =>
        \A i \in DOMAIN fed_resp :
            LET given == ExpectedIds(text)[i]
            IN  /\ fed_resp[i].provider_id \notin
                      {"IRISDMC", "GEOFON", "SED", "USPSC"}
                /\ fed_resp[i].provider_id =
                      CASE given = "IRISDMC" -> "IRIS"
                        [] given = "GEOFON" -> "GFZ"
                        [] given = "SED" -> "ETH"
                        [] given = "USPSC" -> "USP"
                        [] OTHER -> given

\* C14 witness: a plan whose text named USPSC and INGV.
C14_RemappedAndUntouched ==
    /\ ppc = "returned"
    /\ Len(fed_resp) = 2
    /\ ExpectedIds(text) = <<"USPSC", "INGV">>
    /\ fed_resp[1].provider_id = "USP"
    /\ fed_resp[2].provider_id = "INGV"

\* The positions of the DATACENTER lines of the text
DcPos(t) == {i \in DOMAIN t : t[i].kind = "datacenter"}

\* The position of the n-th DATACENTER line
NthDc(t, n) ==
    CHOOSE i \in DcPos(t) : Cardinality({j \in DcPos(t) : j <= i}) = n

\* The selector lines of the text between positions a and b, in order
SelectorsBetween(t, a, b) ==
    LET req == SelectSeq(SubSeq(t, a, b), LAMBDA l : l.kind = "request")
    IN  [i \in DOMAIN req |-> req[i].a]

\* C27: the routes of a plan are in the order of their DATACENTER lines, and
\* the request lines of each route are the selector lines between its
\* DATACENTER line and the next one (or the end of the text), in source
\* order; no selector line is attached to two routes.
C27_RoutesFollowTheText ==
    LET n == Cardinality(DcPos(text))
        last(k) == IF k < n THEN NthDc(text, k + 1) - 1 ELSE Len(text)
    IN  /\ Len(fed_resp) <= n
        /\ ppc = "lines" =>
              /\ Len(fed_resp) = n
              /\ Len(Flatten(ItemsOf(fed_resp)))
                    = Len(SelectSeq(text, LAMBDA l : l.kind = "request"))
        /\ \A k \in DOMAIN fed_resp :
              /\ fed_resp[k].request_items
                    = SelectorsBetween(text, NthDc(text, k) + 1, last(k))
              /\ fed_resp[k].provider_id
                    = IF ppc = "lines" THEN text[NthDc(text, k)].a
                      ELSE RemapId(text[NthDc(text, k)].a)

\* C27 witness: a plan of two routes, the first with two request lines.
C27_TwoBlocksInOrder ==
    /\ ppc = "returned"
    /\ Len(fed_resp) = 2
    /\ ExpectedIds(text) = <<"INGV", "IRISDMC">>
    /\ fed_resp[1].request_items = <<"l1", "l2">>
    /\ fed_resp[2].request_items = <<"l2">>

-----------------------------------------------------------------------------
(* The two alias tables together: a plan parsed by a client whose registry
   was refreshed successfully at construction *)

\* lines 245-253: names the directory lists (the doctest of refresh shows
\* USPSC among providers.names)
AliasDirNames == {"IRISDMC", "USPSC"}

InitAlias ==
    /\ \E resp \in SeqsUpTo({Rec(n) : n \in AliasDirNames}, MaxResp) :
          providers = Complete(resp)
    /\ failed_refreshes = 0
    /\ lock = NoThread
    /\ pc = [t \in Threads |-> "idle"]
    /\ force = [t \in Threads |-> FALSE]
    /\ ridx = [t \in Threads |-> 1]
    /\ ret = [t \in Threads |-> "none"]
    /\ requested = [t \in Threads |-> FALSE]
    /\ reported = [t \in Threads |-> FALSE]
    /\ span = [old |-> providers, new |-> providers]
    /\ rpc = "idle"
    /\ rarg = <<>>
    /\ rres = NoResult
    /\ rkeys = DOMAIN providers
    /\ QueryIdle
    /\ ParseIdle
    /\ AuxIdle

NextAlias ==
    \/ \E line \in Lines : ParseLine(line)
    \/ ParseFinish

SpecAlias == InitAlias /\ [][NextAlias]_vars

\* C29: for every route of a returned plan whose id in the discovery
\* response is a key of the registry, the route's final, aliased id is a
\* key of the registry too and resolves to the same record.
C29_AliasedIdResolves ==
    PlanReturned =>
        \A k \in DOMAIN fed_resp :
            LET native == text[NthDc(text, k)].a
                final == fed_resp[k].provider_id
            IN  native \in DOMAIN providers =>
                   /\ final \in DOMAIN providers
                   /\ providers[final] = providers[native]

-----------------------------------------------------------------------------
(* The helper functions distribute_args and get_bulk_string *)

\* lines 86-88
fedcatalog_prohibited == <<"filename", "attach_response", "user",
                           "password", "base_url">>
service_allowed == <<"user", "password", "attach_response", "filename">>

\* Keyword arguments a caller can pass, and their values
ArgKeys == {"filename", "attach_response", "user", "password", "base_url",
            "network", "level"}
ArgVals == {"v1", "v2"}
ArgDicts == UNION {[K -> ArgVals] : K \in SUBSET ArgKeys}

\* del d[key]
DictDel(d, key) == [k \in DOMAIN d \ {key} |-> d[k]]

\* lines 91-94: for key in fedcatalog_prohibited: if key in fed_argdict: del
RECURSIVE DeleteProhibited(_, _, _)
DeleteProhibited(fed_argdict, keys, i) ==
    IF i > Len(keys) THEN fed_argdict
    ELSE DeleteProhibited(IF keys[i] \in DOMAIN fed_argdict
                          THEN DictDel(fed_argdict, keys[i])
                          ELSE fed_argdict, keys, i + 1)

\* lines 97-100: for key in service_allowed: if key in argdict: copy
RECURSIVE CopyAllowed(_, _, _)
CopyAllowed(argdict, service_args, i) ==
    IF i > Len(service_allowed) THEN service_args
    ELSE CopyAllowed(argdict,
                     IF service_allowed[i] \in DOMAIN argdict
                     THEN DictSet(service_args, service_allowed[i],
                                  argdict[service_allowed[i]])
                     ELSE service_args, i + 1)

\* lines 65-101
distribute_argsKeepsBaseUrl(argdict) ==
    << DeleteProhibited(argdict, SubSeq(fedcatalog_prohibited, 1, 4), 1),
       CopyAllowed(argdict, EmptyDict, 1) >>

distribute_args(argdict) ==
    << DeleteProhibited(argdict, fedcatalog_prohibited, 1),
       CopyAllowed(argdict, EmptyDict, 1) >>

\* A string is a sequence of tokens; NL is the newline character
NL == "\n"

\* Python's None as the value of an option
None == "None"

\* The options passed as `arguments`: not given (None), or the items of a
\* dict in iteration order
OptKeys == {"includeoverlaps", "level"}
OptVals == {None, "True", "v1"}
NoArguments == [given |-> FALSE, items |-> <<>>]
Arguments ==
    {NoArguments}
    \cup {[given |-> TRUE, items |-> it] :
             it \in {q \in SeqsUpTo(OptKeys \X OptVals, 2) :
                        \A i, j \in DOMAIN q : q[i][1] = q[j][1] => i = j}}

\* The local files: path -> contents
FileSystem == [path \in {<<"f">>} |-> <<"l1", NL, "l2">>]

\* os.path.isfile
isfile(path) == path \in DOMAIN FileSystem

\* The values passed as `bulk`: a string, a readable text stream with its
\* contents, a list or tuple of strings, any other object
BulkTexts == {<<>>, <<"f">>, <<"l1">>, <<"l1", NL, "l2">>}
Bulks ==
    {[kind |-> k, s |-> t] : k \in {"str", "stream"}, t \in BulkTexts}
    \cup {[kind |-> "vector", s |-> <<>>], [kind |-> "other", s |-> <<>>]}

\* obspy.clients.fdsn.client.convert_to_string: a bool is written in lower
\* case, a string is left alone
convert_to_string(value) ==
    IF value = "True" THEN "true"
    ELSE IF value = "False" THEN "false"
    ELSE value

\* sep.join(parts)
RECURSIVE join(_, _)
join(sep, parts) ==
    IF parts = <<>> THEN <<>>
    ELSE IF Len(parts) = 1 THEN parts[1]
    ELSE parts[1] \o sep \o join(sep, Tail(parts))

\* lines 121-125
ArgLinesKeepsAbsent(arguments) ==
    IF arguments.given
    THEN [given |-> TRUE,
          lines |-> [i \in DOMAIN arguments.items |->
                        <<arguments.items[i][1], "=",
                          convert_to_string(arguments.items[i][2])>>]]
    ELSE [given |-> FALSE, lines |-> <<>>]

ArgLines(arguments) ==
    IF arguments.given
    THEN LET valued == SelectSeq(arguments.items, LAMBDA kv : kv[2] # None)
         IN  [given |-> TRUE,
              lines |-> [i \in DOMAIN valued |->
                            <<valued[i][1], "=",
                              convert_to_string(valued[i][2])>>]]
    ELSE [given |-> FALSE, lines |-> <<>>]

\* lines 127-148: the body taken from bulk
BulkBody(bulk) ==
    IF bulk.kind = "str"
    THEN [ok |-> TRUE, s |-> bulk.s]
    ELSE IF bulk.kind = "vector"
    THEN [ok |-> FALSE, s |-> <<>>]
    ELSE IF bulk.kind = "stream"
         THEN [ok |-> TRUE, s |-> bulk.s]
         ELSE IF bulk.kind = "str"
              THEN IF NL \notin Range(bulk.s) /\ isfile(bulk.s)
                   THEN [ok |-> TRUE, s |-> FileSystem[bulk.s]]
                   ELSE [ok |-> TRUE, s |-> bulk.s]
              ELSE [ok |-> FALSE, s |-> <<>>]

\* lines 104-155
get_bulk_string(bulk, arguments) ==
    LET args == ArgLines(arguments)
        tmp == BulkBody(bulk)
    IN  IF ~tmp.ok
        THEN [kind |-> "NotImplementedError", value |-> <<>>]
        ELSE IF args.given /\ args.lines # <<>>
             THEN [kind |-> "value",
                   value |-> join(<<NL>>,
                                  <<join(<<NL>>, args.lines), tmp.s>>)]
             ELSE [kind |-> "value", value |-> tmp.s]

\* distribute_args(argdict) is called and returns
CallDistributeArgs(argdict) ==
    /\ call = NoCall
    /\ call' = [fn |-> "distribute_args", args |-> <<argdict>>,
                result |-> distribute_args(argdict)]
    /\ UNCHANGED tpc
    /\ UNCHANGED <<regVars, qVars, parseVars>>

\* get_bulk_string(bulk, arguments) is called and returns or raises
CallGetBulkString(bulk, arguments) ==
    /\ call = NoCall
    /\ call' = [fn |-> "get_bulk_string", args |-> <<bulk, arguments>>,
                result |-> get_bulk_string(bulk, arguments)]
    /\ UNCHANGED tpc
    /\ UNCHANGED <<regVars, qVars, parseVars>>

InitPayload == RegistryAtRest /\ QueryIdle /\ ParseIdle /\ AuxIdle

NextPayload ==
    \/ \E argdict \in ArgDicts : CallDistributeArgs(argdict)
    \/ \E bulk \in Bulks, arguments \in Arguments :
          CallGetBulkString(bulk, arguments)

SpecPayload == InitPayload /\ [][NextPayload]_vars

\* C22: distribute_args returns the input without filename, attach_response,
\* user, password and base_url for the discovery service, and the input
\* restricted to user, password, attach_response and filename for the
\* provider; the two share no key, no value is changed, and base_url is in
\* neither.
C22_OptionsPartitioned ==
    call.fn = "distribute_args" =>
        LET argdict == call.args[1]
            fed == call.result[1]
            svc == call.result[2]
        IN  /\ DOMAIN fed = DOMAIN argdict \ {"filename", "attach_response",
                                              "user", "password", "base_url"}
            /\ DOMAIN svc = DOMAIN argdict \cap {"user", "password",
                                                 "attach_response",
                                                 "filename"}
            /\ DOMAIN fed \cap DOMAIN svc = {}
            /\ \A k \in DOMAIN fed : fed[k] = argdict[k]
            /\ \A k \in DOMAIN svc : svc[k] = argdict[k]
            /\ "base_url" \notin DOMAIN fed \cup DOMAIN svc

\* C22 witness: a call whose input holds base_url, a provider option and a
\* discovery option.
C22_BaseUrlDiscarded ==
    /\ call.fn = "distribute_args"
    /\ DOMAIN call.args[1] = {"base_url", "filename", "network"}
    /\ DOMAIN call.result[1] = {"network"}
    /\ DOMAIN call.result[2] = {"filename"}

\* C23: get_bulk_string takes the body from bulk by its kind: a string with
\* no newline that names an existing local file gives the file's contents,
\* any other string gives itself, a readable stream gives what read returns.
C23_BulkResolvedByKind ==
    (call.fn = "get_bulk_string" /\ ~call.args[2].given
        /\ call.args[1].kind \in {"str", "stream"}) =>
        LET bulk == call.args[1]
        IN  /\ call.result.kind = "value"
            /\ call.result.value =
                  IF bulk.kind = "str" /\ NL \notin Range(bulk.s)
                     /\ isfile(bulk.s)
                  THEN FileSystem[bulk.s]
                  ELSE bulk.s

\* The body get_bulk_string takes from a string or a stream
RECURSIVE OptionsThenBody(_, _)
OptionsThenBody(items, body) ==
    IF items = <<>> THEN body
    ELSE IF Head(items)[2] = None THEN OptionsThenBody(Tail(items), body)
    ELSE <<Head(items)[1], "=", convert_to_string(Head(items)[2]), NL>>
         \o OptionsThenBody(Tail(items), body)

\* C24: get_bulk_string returns one key=value line for each option whose
\* value is not None, each followed by a newline, and then the body; with
\* no such option, or with no options, it returns the body alone.
C24_OptionsPrepended ==
    (call.fn = "get_bulk_string"
        /\ call.args[1].kind \in {"str", "stream"}) =>
        /\ call.result.kind = "value"
        /\ call.result.value
              = OptionsThenBody(call.args[2].items, call.args[1].s)

\* C24 witness: two options, one of them None, ahead of a two-line body.
C24_AbsentOptionSkipped ==
    /\ call.fn = "get_bulk_string"
    /\ call.args[1] = [kind |-> "stream", s |-> <<"l1", NL, "l2">>]
    /\ call.args[2].items = << <<"level", None>>,
                               <<"includeoverlaps", "True">> >>
    /\ call.result.value
          = <<"includeoverlaps", "=", "true", NL, "l1", NL, "l2">>

-----------------------------------------------------------------------------
(* RoutingClient.query in parallel mode: one concurrent task per route of the
   plan, each running FederatedClient._request on the shared in-memory
   collectors; the tasks' steps interleave freely *)

\* What a task's provider call can end with
TaskOutcomes == {"data", "nodata", "fdsn_error"}

Task(pos, o) == [pos |-> pos, outcome |-> o]

\* query() starts one task per route of the plan
ParallelStart(p) ==
    /\ qpc = "idle"
    /\ p # <<>>
    /\ plan' = p
    /\ qpc' = "parallel"
    /\ tpc' = [i \in DOMAIN p |-> Task("start", "none")]
    /\ UNCHANGED <<qargs, idx, pass, output, passed, failed, files,
                   outcomes, data, qerr, disc_log>>
    /\ UNCHANGED call
    /\ UNCHANGED <<regVars, parseVars>>

\* line 549: task i's get_bulk(...) returns a dataset or raises
TaskCall(i, o) ==
    /\ qpc = "parallel"
    /\ i \in DOMAIN tpc
    /\ tpc[i].pos = "start"
    /\ tpc' = [tpc EXCEPT ![i] = Task("called", o)]
    /\ UNCHANGED qVars
    /\ UNCHANGED call
    /\ UNCHANGED <<regVars, parseVars>>

\* line 554: output.put(data)
TaskPutOutput(i) ==
    /\ qpc = "parallel"
    /\ i \in DOMAIN tpc
    /\ tpc[i] = Task("called", "data")
    /\ output' = Append(output, Dataset(plan[i]))
    /\ tpc' = [tpc EXCEPT ![i].pos = "output_put"]
    /\ UNCHANGED <<qpc, qargs, plan, idx, pass, passed, failed, files,
                   outcomes, data, qerr, disc_log>>
    /\ UNCHANGED call
    /\ UNCHANGED <<regVars, parseVars>>

\* line 555: passed.put(req_details)
TaskPutPassedLosesRace(i) ==
    /\ qpc = "parallel"
    /\ i \in DOMAIN tpc
    /\ tpc[i] = Task("output_put", "data")
    /\ passed' = <<data_to_request(Dataset(plan[i]))>>
    /\ tpc' = [tpc EXCEPT ![i].pos = "done"]
    /\ UNCHANGED <<qpc, qargs, plan, idx, pass, output, failed, files,
                   outcomes, data, qerr, disc_log>>
    /\ UNCHANGED call
    /\ UNCHANGED <<regVars, parseVars>>

TaskPutPassed(i) ==
    /\ qpc = "parallel"
    /\ i \in DOMAIN tpc
    /\ tpc[i] = Task("output_put", "data")
    /\ passed' = Append(passed, data_to_request(Dataset(plan[i])))
    /\ tpc' = [tpc EXCEPT ![i].pos = "done"]
    /\ UNCHANGED <<qpc, qargs, plan, idx, pass, output, failed, files,
                   outcomes, data, qerr, disc_log>>
    /\ UNCHANGED call
    /\ UNCHANGED <<regVars, parseVars>>

\* lines 557-560 and 562-566: failed.put(route.request_items); the task ends,
\* by returning after FDSNNoDataException, by re-raising another
\* FDSNException
TaskPutFailed(i) ==
    /\ qpc = "parallel"
    /\ i \in DOMAIN tpc
    /\ tpc[i].pos = "called"
    /\ tpc[i].outcome \in {"nodata", "fdsn_error"}
    /\ failed' = Append(failed, plan[i].request_items)
    /\ tpc' = [tpc EXCEPT ![i].pos = IF tpc[i].outcome = "nodata"
                                     THEN "done" ELSE "raised"]
    /\ UNCHANGED <<qpc, qargs, plan, idx, pass, output, passed, files,
                   outcomes, data, qerr, disc_log>>
    /\ UNCHANGED call
    /\ UNCHANGED <<regVars, parseVars>>

\* query() has waited for every task
ParallelJoin ==
    /\ qpc = "parallel"
    /\ \A i \in DOMAIN tpc : tpc[i].pos \in {"done", "raised"}
    /\ qpc' = "joined"
    /\ UNCHANGED <<qargs, plan, idx, pass, output, passed, failed, files,
                   outcomes, data, qerr, disc_log>>
    /\ UNCHANGED auxVars
    /\ UNCHANGED <<regVars, parseVars>>

InitParallel == RegistryAtRest /\ QueryIdle /\ ParseIdle /\ AuxIdle

NextParallel ==
    \/ \E p \in PlansUpTo(MaxRoutes) : ParallelStart(p)
    \/ \E i \in 1..MaxRoutes, o \in TaskOutcomes : TaskCall(i, o)
    \/ \E i \in 1..MaxRoutes : TaskPutOutput(i)
    \/ \E i \in 1..MaxRoutes : TaskPutPassed(i)
    \/ \E i \in 1..MaxRoutes : TaskPutFailed(i)
    \/ ParallelJoin

SpecParallel == InitParallel /\ [][NextParallel]_vars

\* query() in serial mode on plan p when the provider of route i answers
\* outs[i]: _request route by route, until one raises
RECURSIVE SerialDispatch(_, _, _, _)
SerialDispatch(p, outs, i, c) ==
    IF i > Len(p) \/ c.raised # "none" THEN c
    ELSE SerialDispatch(p, outs, i + 1, request(p[i], FALSE, outs[i], c))

\* Two queues hold the same entries, each the same number of times
SameEntries(q1, q2) ==
    /\ Len(q1) = Len(q2)
    /\ \A x \in Range(q1) \cup Range(q2) : Count(q1, x) = Count(q2, x)

\* C26: when every task of a parallel dispatch ended with data or with no
\* data, the output, passed and failed collectors hold, as multisets, what
\* the serial dispatch of the same plan with the same provider answers
\* leaves in them, whatever the interleaving of the tasks was.
C26_ParallelEqualsSerial ==
    (qpc = "joined"
        /\ \A i \in DOMAIN tpc : tpc[i].outcome \in {"data", "nodata"}) =>
        LET serial == SerialDispatch(plan,
                                     [i \in DOMAIN tpc |-> tpc[i].outcome],
                                     1, Collectors)
        IN  /\ SameEntries(output, serial.output)
            /\ SameEntries(passed, serial.passed)
            /\ SameEntries(failed, serial.failed)

\* C26 witness: two tasks with data have ended, the second put its dataset
\* first and its request lines last.
C26_TasksOvertookEachOther ==
    /\ qpc = "joined"
    /\ Len(plan) = 2
    /\ plan[1] # plan[2]
    /\ output = <<Dataset(plan[2]), Dataset(plan[1])>>
    /\ passed = <<plan[1].request_items, plan[2].request_items>>

-----------------------------------------------------------------------------
(* FederatedClient.get_routing called directly with keyword arguments *)

\* Keyword arguments of a call of get_routing, and their values
RoutingKeys == {"bulk", "station", "network", "includeoverlaps"}
RoutingKwargs == UNION {[K -> ArgVals] : K \in SUBSET RoutingKeys}

\* lines 402-403: the ValueError is built and dropped, no raise statement
\* names it
BulkOptionRaises(kwargs) == FALSE

\* lines 402-417: requests.get with kwargs as parameters, an answer whose
\* status raise_for_status lets pass, parse_routing
GetRouting(kwargs, st, p) ==
    /\ call = NoCall
    /\ qpc = "idle"
    /\ ~BulkOptionRaises(kwargs)
    /\ ~raise_for_status(st)
    /\ disc_log' = Append(disc_log,
                          [verb |-> "GET", by |-> "get_routing",
                           params |-> kwargs, status |-> st])
    /\ call' = [fn |-> "get_routing", args |-> <<kwargs>>,
                result |-> [kind |-> "value", value |-> p]]
    /\ UNCHANGED <<qpc, qargs, plan, idx, pass, output, passed, failed,
                   files, outcomes, data, qerr>>
    /\ UNCHANGED tpc
    /\ UNCHANGED <<regVars, parseVars>>

\* lines 402-406: resp.raise_for_status() raises
GetRoutingFail(kwargs, st) ==
    /\ call = NoCall
    /\ qpc = "idle"
    /\ ~BulkOptionRaises(kwargs)
    /\ raise_for_status(st)
    /\ disc_log' = Append(disc_log,
                          [verb |-> "GET", by |-> "get_routing",
                           params |-> kwargs, status |-> st])
    /\ call' = [fn |-> "get_routing", args |-> <<kwargs>>,
                result |-> [kind |-> "HTTPError", value |-> <<>>]]
    /\ UNCHANGED <<qpc, qargs, plan, idx, pass, output, passed, failed,
                   files, outcomes, data, qerr>>
    /\ UNCHANGED tpc
    /\ UNCHANGED <<regVars, parseVars>>

InitRouting == RegistryAtRest /\ QueryIdle /\ ParseIdle /\ AuxIdle

NextRouting ==
    \/ \E kwargs \in RoutingKwargs, st \in Statuses,
          p \in PlansUpTo(MaxRoutes) : GetRouting(kwargs, st, p)
    \/ \E kwargs \in RoutingKwargs, st \in Statuses :
          GetRoutingFail(kwargs, st)

SpecRouting == InitRouting /\ [][NextRouting]_vars

\* C32: a call of get_routing with a bulk option among its keyword
\* arguments ends with an error and sends no GET to the fedcatalog.
C32_BulkOptionRefused ==
    (call.fn = "get_routing" /\ "bulk" \in DOMAIN call.args[1]) =>
        /\ call.result.kind \notin {"value", "HTTPError"}
        /\ disc_log = <<>>

====
